---- MODULE Spec2Model ----
(***************************************************************************)
(* Axolotls: the DType algebra (axolotls/dtypes.py) and the nullable       *)
(* numeric column (axolotls/numeric_column.py).                            *)
(*                                                                         *)
(* A DType is a frozen dataclass: its value is the tuple of its compared   *)
(* fields, its class is its typecode.  A DType is modelled as a record     *)
(* holding the typecode and exactly the fields that take part in the       *)
(* dataclass's __eq__, so TLA+ equality of two records is __eq__ of the    *)
(* two instances.                                                          *)
(*                                                                         *)
(* A call either returns a DType, returns None, or raises; an Outcome      *)
(* records which.                                                          *)
(***************************************************************************)
EXTENDS Integers, Sequences, FiniteSets

VARIABLES l, r, res, op, bufs, cols, pyvalue,
          global_py_type_id, structs, threads

(* the state of Struct construction: the class counter, the Structs made  *)
(* and the threads making them                                             *)
ids == <<global_py_type_id, structs, threads>>

vars == <<l, r, res, op, bufs, cols, pyvalue, global_py_type_id, structs,
          threads>>

-----------------------------------------------------------------------------
(* Bounds *)

MaxArity == 2

MaxFixedSize == 2

MaxChain == 2

MaxLen == 2

MaxVal == 1

MaxCols == 2

(* elements of a prefix given to infer_dtype_from_prefix *)
MaxPrefix == 3

(* Structs constructed in a run *)
MaxStructs == 3

(* threads constructing Structs *)
MaxThreads == 2

(* names of the fields of the structs built here, by position *)
FieldNames == <<"a", "b", "c", "d">>

-----------------------------------------------------------------------------
(* Outcomes of a call *)

Value(d) == [kind |-> "value", val |-> d]

ReturnNone == [kind |-> "none"]

Raise(e) == [kind |-> "raise", err |-> e]

NoCall == [kind |-> "nocall"]

-----------------------------------------------------------------------------
(* The DType classes *)

NoMeta == "None"

DefaultFixedSize == -1

Prim(tc, nullable) == [tc |-> tc, nullable |-> nullable]

Void(nullable) == Prim("n", nullable)

Boolean(nullable) == Prim("b", nullable)

Int8(nullable) == Prim("c", nullable)

Int16(nullable) == Prim("s", nullable)

Int32(nullable) == Prim("i", nullable)

Int64(nullable) == Prim("l", nullable)

Float32(nullable) == Prim("f", nullable)

Float64(nullable) == Prim("g", nullable)

String(nullable) == Prim("u", nullable)

Any(nullable) == Prim("?", nullable)

Map(key_dtype, item_dtype, nullable, keys_sorted) ==
  [tc |-> "+m", key_dtype |-> key_dtype, item_dtype |-> item_dtype,
   nullable |-> nullable, keys_sorted |-> keys_sorted]

List(item_dtype, nullable, fixed_size) ==
  [tc |-> "+l", item_dtype |-> item_dtype, nullable |-> nullable,
   fixed_size |-> fixed_size]

Field(name, dtype, metadata) ==
  [name |-> name, dtype |-> dtype, metadata |-> metadata]

StructValue(fields, nullable, is_dataframe, metadata) ==
  [tc |-> "+s", fields |-> fields, nullable |-> nullable,
   is_dataframe |-> is_dataframe, metadata |-> metadata]

Tuple(fields, nullable, is_dataframe, metadata) ==
  [tc |-> "+t", fields |-> fields, nullable |-> nullable,
   is_dataframe |-> is_dataframe, metadata |-> metadata]

(* post_init_ok without the loop over the fields *)
post_init_unchecked(fields, nullable) == TRUE

(* Struct.__post_init__: a nullable struct requires every field nullable. *)
post_init_ok(fields, nullable) ==
  nullable => \A i \in 1..Len(fields) : fields[i].dtype.nullable

(* Struct(fields, nullable, is_dataframe, metadata): the dataclass's       *)
(* __init__ followed by __post_init__, which may raise TypeError.          *)
Struct(fields, nullable, is_dataframe, metadata) ==
  IF post_init_ok(fields, nullable)
  THEN Value(StructValue(fields, nullable, is_dataframe, metadata))
  ELSE Raise("TypeError")

(* The module-level instances *)
boolean == Boolean(FALSE)

int8 == Int8(FALSE)

int16 == Int16(FALSE)

int32 == Int32(FALSE)

int64 == Int64(FALSE)

float32 == Float32(FALSE)

float64 == Float64(FALSE)

string == String(FALSE)

-----------------------------------------------------------------------------
(* Type tests *)

is_void(t) == t.tc = "n"

is_boolean(t) == t.tc = "b"

is_integer(t) == t.tc \in {"c", "s", "i", "l", "C", "S", "I", "L"}

is_floating(t) == t.tc \in {"f", "g"}

is_numerical(t) == is_integer(t) \/ is_floating(t)

is_boolean_or_numerical(t) == is_boolean(t) \/ is_numerical(t)

is_string(t) == t.tc = "u"

is_list(t) == t.tc = "+l"

is_map(t) == t.tc = "+m"

is_struct(t) == t.tc = "+s"

is_tuple(t) == t.tc = "+t"

is_any(t) == t.tc = "?"

is_primitive(t) == t.tc \notin {"+l", "+m", "+s", "+t"}

-----------------------------------------------------------------------------
(* constructor / with_null *)

(* Primitive_constructor that can set the flag but not clear it *)
Primitive_constructor_sticky(t, nullable) ==
  Value(Prim(t.tc, t.nullable \/ nullable))

(* The per-class constructor(nullable) methods. *)
Primitive_constructor(t, nullable) == Value(Prim(t.tc, nullable))

Map_constructor(t, nullable) ==
  Value(Map(t.key_dtype, t.item_dtype, nullable, FALSE))

List_constructor(t, nullable) ==
  Value(List(t.item_dtype, nullable, DefaultFixedSize))

Struct_constructor(t, nullable) == Struct(t.fields, nullable, FALSE, NoMeta)

Tuple_constructor(t, nullable) ==
  Value(Tuple(t.fields, nullable, FALSE, NoMeta))

Any_constructor(t, nullable) ==
  IF nullable THEN Value(Any(TRUE)) ELSE Raise("AssertionError")

(* Dynamic dispatch of t.constructor(nullable) on the class of t. *)
constructor(t, nullable) ==
  CASE is_any(t) -> Any_constructor(t, nullable)
    [] is_map(t) -> Map_constructor(t, nullable)
    [] is_list(t) -> List_constructor(t, nullable)
    [] is_struct(t) -> Struct_constructor(t, nullable)
    [] is_tuple(t) -> Tuple_constructor(t, nullable)
    [] OTHER -> Primitive_constructor(t, nullable)

with_null(t, nullable) == constructor(t, nullable)

(* dataclass __eq__: same class, then the compared fields as a tuple. *)
dtype_eq(a, b) == a.tc = b.tc /\ a = b

-----------------------------------------------------------------------------
(* lub of two types for inference *)

(* "lt in lts" on a one-character typecode is membership in the string's  *)
(* characters.                                                             *)
promotion_list ==
  << [lts |-> {"b"}, rts |-> {"b"}, dtype |-> boolean],
     [lts |-> {"b", "c"}, rts |-> {"b", "c"}, dtype |-> int8],
     [lts |-> {"b", "c", "s"}, rts |-> {"b", "c", "s"}, dtype |-> int16],
     [lts |-> {"b", "c", "s", "i"}, rts |-> {"b", "c", "s", "i"},
      dtype |-> int32],
     [lts |-> {"b", "c", "s", "i", "l"}, rts |-> {"b", "c", "s", "i", "l"},
      dtype |-> int64],
     [lts |-> {"b", "c", "s", "i", "l", "f"},
      rts |-> {"b", "c", "s", "i", "l", "f"}, dtype |-> float32],
     [lts |-> {"b", "c", "s", "i", "l", "f", "g"},
      rts |-> {"b", "c", "s", "i", "l", "f", "g"}, dtype |-> float64] >>

RECURSIVE promote_scan(_, _, _, _)
(* the for loop of promote: the first entry holding both typecodes *)
promote_scan(lt, rt, nullable, i) ==
  IF i > Len(promotion_list) THEN ReturnNone
  ELSE IF lt \in promotion_list[i].lts /\ rt \in promotion_list[i].rts
       THEN with_null(promotion_list[i].dtype, nullable)
       ELSE promote_scan(lt, rt, nullable, i + 1)

(* promote taking the nullability of the left operand only *)
promote_left_nullable(a, b) ==
  IF ~(is_boolean_or_numerical(a) /\ is_boolean_or_numerical(b))
  THEN Raise("AssertionError")
  ELSE IF a.tc = b.tc
       THEN with_null(a, a.nullable)
       ELSE promote_scan(a.tc, b.tc, a.nullable, 1)

promote(a, b) ==
  IF ~(is_boolean_or_numerical(a) /\ is_boolean_or_numerical(b))
  THEN Raise("AssertionError")
  ELSE IF a.tc = b.tc
       THEN with_null(a, a.nullable \/ b.nullable)
       ELSE promote_scan(a.tc, b.tc, a.nullable \/ b.nullable, 1)

(* the last rule of common_dtype: equal once both are made nullable *)
common_fallback(a, b) ==
  LET an == with_null(a, TRUE)
      bn == with_null(b, TRUE)
  IN  IF an.kind = "raise" THEN an
      ELSE IF bn.kind = "raise" THEN bn
      ELSE IF dtype_eq(an.val, bn.val)
           THEN Value(IF a.nullable THEN a ELSE b)
           ELSE ReturnNone

RECURSIVE common_dtype(_, _)
RECURSIVE common_tuple_loop(_, _, _, _)
RECURSIVE common_tuple_loop_skip(_, _, _, _)
(* the zip loop leaving out a position whose join fails *)
common_tuple_loop_skip(lf, rf, i, acc) ==
  IF i > Len(lf) THEN Value(acc)
  ELSE LET m == common_dtype(lf[i], rf[i])
       IN  common_tuple_loop_skip(lf, rf, i + 1,
                                  IF m.kind # "value" THEN acc
                                  ELSE Append(acc, m.val))

(* the zip loop over two field lists of equal length; acc is res *)
common_tuple_loop(lf, rf, i, acc) ==
  IF i > Len(lf) THEN Value(acc)
  ELSE LET m == common_dtype(lf[i], rf[i])
       IN  IF m.kind # "value" THEN m
           ELSE common_tuple_loop(lf, rf, i + 1, Append(acc, m.val))

common_dtype(a, b) ==
  IF is_void(a) THEN with_null(b, TRUE)
  ELSE IF is_void(b) THEN with_null(a, TRUE)
  ELSE IF is_any(a) THEN Value(b)
  ELSE IF is_any(b) THEN Value(a)
  ELSE IF is_string(a) /\ is_string(b)
       THEN Value(String(a.nullable \/ b.nullable))
  ELSE IF is_boolean_or_numerical(a) /\ is_boolean_or_numerical(b)
       THEN promote(a, b)
  ELSE IF is_tuple(a) /\ is_tuple(b) /\ Len(a.fields) = Len(b.fields)
       THEN LET fs == common_tuple_loop(a.fields, b.fields, 1, <<>>)
            IN  IF fs.kind # "value" THEN fs
                ELSE with_null(Tuple(fs.val, FALSE, FALSE, NoMeta),
                               a.nullable \/ b.nullable)
  ELSE IF is_map(a) /\ is_map(b)
       THEN LET k == common_dtype(a.key_dtype, b.key_dtype)
            IN  IF k.kind = "raise" THEN k
                ELSE LET i == common_dtype(a.item_dtype, b.item_dtype)
                     IN  IF i.kind = "raise" THEN i
                         ELSE IF k.kind = "value" /\ i.kind = "value"
                              THEN with_null(Map(k.val, i.val, FALSE, FALSE),
                                             a.nullable \/ b.nullable)
                              ELSE ReturnNone
  ELSE IF is_list(a) /\ is_list(b)
       THEN LET k == common_dtype(a.item_dtype, b.item_dtype)
            IN  IF k.kind = "value"
                THEN with_null(List(k.val, FALSE, DefaultFixedSize),
                               a.nullable \/ b.nullable)
                ELSE k
  ELSE common_fallback(a, b)

-----------------------------------------------------------------------------
(* Inference of a DType from Python values *)

PREFIX_LENGTH == 5

(* Python values by their class; a list, tuple or dict holds values *)
PyLeaf(c) == [py |-> c]

PyNone == PyLeaf("None")

PyBool == PyLeaf("bool")

PyInt == PyLeaf("int")

PyFloat == PyLeaf("float")

PyStr == PyLeaf("str")

NpInt8 == PyLeaf("np.int8")

PyObject == PyLeaf("object")

PyList(items) == [py |-> "list", items |-> items]

PyTuple(items) == [py |-> "tuple", items |-> items]

PyDict(keys, values) == [py |-> "dict", keys |-> keys, values |-> values]

(* value[:PREFIX_LENGTH] *)
Prefix(value) ==
  SubSeq(value, 1, IF Len(value) < PREFIX_LENGTH THEN Len(value)
                   ELSE PREFIX_LENGTH)

(* the ValueError of infer_dtype_from_prefix, whose message holds the      *)
(* dtype folded so far and the dtype of the next element                   *)
ValueError(old_dtype, next_dtype) ==
  [kind |-> "raise", err |-> "ValueError",
   old_dtype |-> old_dtype, next_dtype |-> next_dtype]

RECURSIVE infer_dtype_from_value(_)
RECURSIVE infer_dtype_from_prefix(_)
RECURSIVE infer_prefix_loop(_, _, _)
RECURSIVE infer_tuple_loop(_, _, _)
RECURSIVE infer_prefix_loop_none(_, _, _)
(* the loop returning the None of common_dtype instead of raising *)
infer_prefix_loop_none(prefix, i, dtype) ==
  IF i > Len(prefix) THEN Value(dtype)
  ELSE LET next_dtype == infer_dtype_from_value(prefix[i])
       IN  IF next_dtype.kind # "value" THEN next_dtype
           ELSE LET m == common_dtype(dtype, next_dtype.val)
                IN  IF m.kind # "value" THEN m
                    ELSE infer_prefix_loop_none(prefix, i + 1, m.val)

(* the for loop over value of a tuple; acc is dtypes *)
infer_tuple_loop(value, i, acc) ==
  IF i > Len(value) THEN Value(acc)
  ELSE LET t == infer_dtype_from_value(value[i])
       IN  IF t.kind # "value" THEN t
           ELSE infer_tuple_loop(value, i + 1, Append(acc, t.val))

infer_dtype_from_value(value) ==
  CASE value.py = "None" -> Value(Void(TRUE))
    [] value.py = "bool" -> Value(boolean)
    [] value.py = "np.int8" -> Value(int8)
    [] value.py = "np.int16" -> Value(int16)
    [] value.py = "np.int32" -> Value(int32)
    [] value.py = "int" -> Value(int64)
    [] value.py = "np.float64" -> Value(float64)
    [] value.py = "float" -> Value(float32)
    [] value.py = "str" -> Value(string)
    [] value.py = "list" ->
         LET dtype == infer_dtype_from_prefix(Prefix(value.items))
         IN  IF dtype.kind # "value" THEN dtype
             ELSE Value(List(dtype.val, FALSE, DefaultFixedSize))
    [] value.py = "dict" ->
         LET key_dtype == infer_dtype_from_prefix(Prefix(value.keys))
         IN  IF key_dtype.kind # "value" THEN key_dtype
             ELSE LET items_dtype ==
                        infer_dtype_from_prefix(Prefix(value.values))
                  IN  IF items_dtype.kind # "value" THEN items_dtype
                      ELSE Value(Map(key_dtype.val, items_dtype.val,
                                     FALSE, FALSE))
    [] value.py = "tuple" ->
         LET dtypes == infer_tuple_loop(value.items, 1, <<>>)
         IN  IF dtypes.kind # "value" THEN dtypes
             ELSE Value(Tuple(dtypes.val, FALSE, FALSE, NoMeta))
    [] OTHER -> Raise("AssertionError")

(* the for loop over prefix[1:]; dtype is the fold so far *)
infer_prefix_loop(prefix, i, dtype) ==
  IF i > Len(prefix) THEN Value(dtype)
  ELSE LET next_dtype == infer_dtype_from_value(prefix[i])
       IN  IF next_dtype.kind # "value" THEN next_dtype
           ELSE LET m == common_dtype(dtype, next_dtype.val)
                IN  IF m.kind = "raise" THEN m
                    ELSE IF m.kind = "none"
                         THEN ValueError(dtype, next_dtype.val)
                         ELSE infer_prefix_loop(prefix, i + 1, m.val)

infer_dtype_from_prefix(prefix) ==
  IF Len(prefix) = 0 THEN Value(Any(TRUE))
  ELSE LET dtype == infer_dtype_from_value(prefix[1])
       IN  IF dtype.kind # "value" THEN dtype
           ELSE infer_prefix_loop(prefix, 2, dtype.val)

-----------------------------------------------------------------------------
(* Type hints: dtype_of_type *)

Hint(h, args) == [h |-> h, args |-> args]

RECURSIVE dtype_of_type(_)
RECURSIVE dtype_of_types(_, _, _)
(* the list comprehensions over the argument hints; the first raise ends it *)
dtype_of_types(hs, i, acc) ==
  IF i > Len(hs) THEN Value(acc)
  ELSE LET d == dtype_of_type(hs[i])
       IN  IF d.kind # "value" THEN d
           ELSE dtype_of_types(hs, i + 1, Append(acc, d.val))

dtype_of_type(typ) ==
  CASE typ.h = "DType" -> Value(typ.args[1])
    [] typ.h = "Tuple" ->
         LET ds == dtype_of_types(typ.args, 1, <<>>)
         IN  IF ds.kind # "value" THEN ds
             ELSE Value(Tuple(ds.val, FALSE, FALSE, NoMeta))
    [] typ.h = "namedtuple" -> Raise("TypeError")
    [] typ.h \in {"NamedTuple", "dataclass"} ->
         LET ds == dtype_of_types(typ.args, 1, <<>>)
         IN  IF ds.kind # "value" THEN ds
             ELSE Struct([i \in 1..Len(ds.val) |->
                            Field(FieldNames[i], ds.val[i], NoMeta)],
                         FALSE, FALSE, NoMeta)
    [] typ.h = "List" ->
         LET e == dtype_of_type(typ.args[1])
         IN  IF e.kind # "value" THEN e
             ELSE Value(List(e.val, FALSE, DefaultFixedSize))
    [] typ.h = "Dict" ->
         LET k == dtype_of_type(typ.args[1])
         IN  IF k.kind # "value" THEN k
             ELSE LET v == dtype_of_type(typ.args[2])
                  IN  IF v.kind # "value" THEN v
                      ELSE Value(Map(k.val, v.val, FALSE, FALSE))
    [] typ.h = "Optional" ->
         LET c == dtype_of_type(typ.args[1])
         IN  IF c.kind # "value" THEN c ELSE with_null(c.val, TRUE)
    [] typ.h = "float" -> Value(float32)
    [] typ.h = "int" -> Value(int64)
    [] typ.h = "str" -> Value(string)
    [] typ.h = "bool" -> Value(boolean)
    [] OTHER -> Raise("TypeError")

-----------------------------------------------------------------------------
(* The DTypes and hints the operations are applied to *)

PrimCodes == {"n", "b", "c", "s", "i", "l", "f", "g", "u", "?"}

(* every primitive class with either flag; Any only as Any() *)
PrimDTypes ==
  {Prim(tc, n) : tc \in PrimCodes \ {"?"}, n \in BOOLEAN} \cup {Any(TRUE)}

ItemDTypes == {int8, Int64(TRUE), string}

FieldDTypes == {Int64(TRUE), string}

FixedSizes == {DefaultFixedSize, MaxFixedSize}

Metas == {NoMeta, "meta"}

(* is_dataframe and metadata settings *)
Settings == {<<FALSE, NoMeta>>, <<TRUE, NoMeta>>, <<FALSE, "meta">>}

FieldLists == UNION {[1..k -> FieldDTypes] : k \in 0..MaxArity}

ListDTypes ==
  {List(i, n, fs) : i \in ItemDTypes, n \in BOOLEAN, fs \in FixedSizes}

MapDTypes ==
  {Map(k, i, n, ks) : k \in FieldDTypes, i \in ItemDTypes,
                      n \in BOOLEAN, ks \in BOOLEAN}

TupleDTypes ==
  {Tuple(f, n, s[1], s[2]) : f \in FieldLists, n \in BOOLEAN, s \in Settings}

StructCalls ==
  {Struct([i \in 1..Len(f) |-> Field(FieldNames[i], f[i], NoMeta)],
          n, s[1], s[2]) : f \in FieldLists, n \in BOOLEAN, s \in Settings}

StructDTypes == {o.val : o \in {c \in StructCalls : c.kind = "value"}}

DTypes ==
  PrimDTypes \cup ListDTypes \cup MapDTypes \cup TupleDTypes \cup StructDTypes

(* hints over the four bare types, an unmappable one and a DType instance *)
BaseHints(d) ==
  {Hint(h, <<>>) : h \in {"float", "int", "str", "bool", "bytes"}}
    \cup {Hint("DType", <<d>>)}

InnerHints(d) ==
  {Hint("int", <<>>), Hint("DType", <<d>>), Hint("bytes", <<>>),
   Hint("Optional", <<Hint("int", <<>>)>>),
   Hint("NamedTuple", <<Hint("int", <<>>)>>),
   Hint("NamedTuple", <<Hint("Optional", <<Hint("str", <<>>)>>)>>)}

TypeHints(d) ==
  BaseHints(d)
    \cup {Hint(h, <<x>>) : h \in {"Optional", "List", "NamedTuple",
                                  "dataclass", "namedtuple", "Tuple"},
                           x \in InnerHints(d)}
    \cup {Hint(h, <<Hint("str", <<>>), x>>) :
            h \in {"Dict", "Tuple", "NamedTuple"}, x \in InnerHints(d)}

-----------------------------------------------------------------------------
(* The calls *)

Call(fn, arg) == [fn |-> fn, arg |-> arg]

(* fields i = 1..k taken alternately from the two operands *)
Operands(k) == [i \in 1..k |-> IF i % 2 = 1 THEN l ELSE r]

CallCommonDtype ==
  /\ res' = common_dtype(l, r)
  /\ op' = Call("common_dtype", <<>>)
  /\ UNCHANGED <<l, r, bufs, cols, pyvalue, ids>>

CallPromote ==
  /\ res' = promote(l, r)
  /\ op' = Call("promote", <<>>)
  /\ UNCHANGED <<l, r, bufs, cols, pyvalue, ids>>

(* l.with_null(flag) *)
CallWithNull ==
  \E flag \in BOOLEAN :
    /\ res' = with_null(l, flag)
    /\ op' = Call("with_null", <<flag>>)
    /\ UNCHANGED <<l, r, bufs, cols, pyvalue, ids>>

(* a further .with_null(flag) on the value the previous with_null returned *)
ChainWithNull ==
  \E flag \in BOOLEAN :
    /\ op.fn = "with_null"
    /\ res.kind = "value"
    /\ Len(op.arg) < MaxChain
    /\ res' = with_null(res.val, flag)
    /\ op' = Call("with_null", Append(op.arg, flag))
    /\ UNCHANGED <<l, r, bufs, cols, pyvalue, ids>>

NewList ==
  \E n \in BOOLEAN, fs \in FixedSizes :
    /\ res' = Value(List(l, n, fs))
    /\ op' = Call("List", <<n, fs>>)
    /\ UNCHANGED <<l, r, bufs, cols, pyvalue, ids>>

NewMap ==
  \E n \in BOOLEAN, ks \in BOOLEAN :
    /\ res' = Value(Map(l, r, n, ks))
    /\ op' = Call("Map", <<n, ks>>)
    /\ UNCHANGED <<l, r, bufs, cols, pyvalue, ids>>

NewTuple ==
  \E k \in 0..MaxArity, n \in BOOLEAN, s \in Settings :
    /\ res' = Value(Tuple(Operands(k), n, s[1], s[2]))
    /\ op' = Call("Tuple", <<k, n, s>>)
    /\ UNCHANGED <<l, r, bufs, cols, pyvalue, ids>>

NewStruct ==
  \E k \in 0..MaxArity, n \in BOOLEAN, s \in Settings :
    /\ res' = Struct([i \in 1..k |->
                        Field(FieldNames[i], Operands(k)[i], NoMeta)],
                     n, s[1], s[2])
    /\ op' = Call("Struct", <<k, n, s>>)
    /\ UNCHANGED <<l, r, bufs, cols, pyvalue, ids>>

CallDtypeOfType ==
  \E typ \in TypeHints(l) :
    /\ res' = dtype_of_type(typ)
    /\ op' = Call("dtype_of_type", typ)
    /\ UNCHANGED <<l, r, bufs, cols, pyvalue, ids>>

(* the value a call returned becomes the operand of the calls that follow *)
Store ==
  /\ res.kind = "value"
  /\ res.val \in DTypes
  /\ l' = res.val
  /\ res' = NoCall
  /\ op' = Call("store", <<>>)
  /\ UNCHANGED <<r, bufs, cols, pyvalue, ids>>

-----------------------------------------------------------------------------
(* Specifications *)

(* the join of two DTypes: every pair of operands *)
JoinInit ==
  /\ l \in DTypes
  /\ r \in DTypes
  /\ res = NoCall
  /\ op = Call("init", <<>>)
  /\ bufs = <<>>
  /\ cols = <<>>
  /\ pyvalue = <<>>
  /\ global_py_type_id = 0
  /\ structs = <<>>
  /\ threads = <<>>

JoinNext == CallCommonDtype \/ CallPromote

JoinSpec == JoinInit /\ [][JoinNext]_vars

(* the algebra: construction, with_null, dtype_of_type, join with a leaf *)
TypeInit ==
  /\ l \in DTypes
  /\ r \in {Void(TRUE), Int64(TRUE), string}
  /\ res = NoCall
  /\ op = Call("init", <<>>)
  /\ bufs = <<>>
  /\ cols = <<>>
  /\ pyvalue = <<>>
  /\ global_py_type_id = 0
  /\ structs = <<>>
  /\ threads = <<>>

TypeNext ==
  \/ CallCommonDtype
  \/ CallWithNull
  \/ ChainWithNull
  \/ NewList
  \/ NewMap
  \/ NewTuple
  \/ NewStruct
  \/ CallDtypeOfType
  \/ Store

TypeSpec == TypeInit /\ [][TypeNext]_vars

(* inference: the sample values and the prefixes made of them *)
Samples ==
  {PyNone, PyBool, PyInt, PyFloat, PyStr, NpInt8, PyObject,
   PyList(<<>>), PyList(<<PyNone>>), PyList(<<PyInt>>),
   PyList(<<PyInt, PyStr>>),
   PyList(<<PyInt, PyInt, PyInt, PyInt, PyInt, PyStr>>),
   PyTuple(<<PyInt>>), PyTuple(<<PyInt, PyStr>>),
   PyDict(<<PyStr>>, <<PyInt>>)}

Prefixes == UNION {[1..n -> Samples] : n \in 0..MaxPrefix}

(* infer_dtype_from_value(pyvalue[key]) *)
CallInferValue ==
  \E key \in 1..Len(pyvalue) :
    /\ res' = infer_dtype_from_value(pyvalue[key])
    /\ op' = Call("infer_dtype_from_value", key)
    /\ UNCHANGED <<l, r, bufs, cols, pyvalue, ids>>

(* infer_dtype_from_prefix(pyvalue) *)
CallInferPrefix ==
  /\ res' = infer_dtype_from_prefix(pyvalue)
  /\ op' = Call("infer_dtype_from_prefix", <<>>)
  /\ UNCHANGED <<l, r, bufs, cols, pyvalue, ids>>

InferInit ==
  /\ l = Void(TRUE)
  /\ r = Void(TRUE)
  /\ res = NoCall
  /\ op = Call("init", <<>>)
  /\ bufs = <<>>
  /\ cols = <<>>
  /\ pyvalue \in Prefixes
  /\ global_py_type_id = 0
  /\ structs = <<>>
  /\ threads = <<>>

InferNext == CallInferValue \/ CallInferPrefix

InferSpec == InferInit /\ [][InferNext]_vars

-----------------------------------------------------------------------------
(* Struct._global_py_type_id and _local_py_type_id *)

(* a Struct instance: the compared fields, and the field left out of      *)
(* __eq__ (compare=False)                                                  *)
Instance(dtype, id) == [dtype |-> dtype, local_py_type_id |-> id]

(* the __eq__ the dataclass generates for Struct *)
Struct_eq(a, b) == dtype_eq(a.dtype, b.dtype)

(* an increment that stores the value it read *)
global_py_type_id_stuck(read) == read

(* the value "_global_py_type_id += 1" stores, given the value it read *)
global_py_type_id_plus_1(read) == read + 1

Idle == [pc |-> "idle"]

Threads == DOMAIN threads

(* constructions begun: finished ones and those in __post_init__ *)
Begun == Len(structs) + Cardinality({t \in Threads : threads[t].pc # "idle"})

(* the arguments of the direct constructions *)
StructArgs ==
  {<<fs, n, d>> :
     fs \in {<<Field("a", Int64(TRUE), NoMeta)>>,
             <<Field("a", string, NoMeta)>>},
     n \in BOOLEAN, d \in {FALSE}}
    \cup {<< <<Field("a", Int64(TRUE), NoMeta)>>, FALSE, TRUE >>}

(* thread t enters __post_init__ of a new instance: the check of the       *)
(* fields (o is its outcome) raises or lets the instance through           *)
Begin(t, o, call) ==
  /\ threads[t].pc = "idle"
  /\ Begun < MaxStructs
  /\ IF o.kind = "value"
     THEN /\ threads' = [threads EXCEPT
                           ![t] = [pc |-> "set_id", self |-> o.val]]
          /\ res' = NoCall
     ELSE /\ res' = o
          /\ UNCHANGED threads
  /\ op' = call
  /\ UNCHANGED <<l, r, bufs, cols, pyvalue, global_py_type_id, structs>>

(* Struct(fields, nullable, is_dataframe) *)
StructNew ==
  \E t \in Threads, a \in StructArgs :
    Begin(t, Struct(a[1], a[2], a[3], NoMeta), Call("Struct", t))

(* s.with_null(nullable): Struct(self.fields, nullable) *)
StructWithNull ==
  \E t \in Threads, i \in 1..Len(structs), nullable \in BOOLEAN :
    Begin(t, Struct_constructor(structs[i].dtype, nullable),
          Call("with_null", t))

(* __setstate__ of the state of s (unpickling, copy): the four fields are  *)
(* set and __post_init__ runs                                              *)
StructSetState ==
  \E t \in Threads, i \in 1..Len(structs) :
    LET state == structs[i].dtype
    IN  Begin(t, Struct(state.fields, state.nullable, state.is_dataframe,
                        state.metadata),
              Call("__setstate__", t))

(* object.__setattr__(self, "_local_py_type_id", <read of the counter>) *)
PostInitSetId ==
  \E t \in Threads :
    /\ threads[t].pc = "set_id"
    /\ threads' = [threads EXCEPT
                     ![t] = [pc |-> "load", self |-> threads[t].self,
                             local_py_type_id |-> global_py_type_id]]
    /\ op' = Call("set_id", t)
    /\ UNCHANGED <<l, r, res, bufs, cols, pyvalue, global_py_type_id,
                   structs>>

(* "+= 1", first half: the read of type(self)._global_py_type_id *)
PostInitLoad ==
  \E t \in Threads :
    /\ threads[t].pc = "load"
    /\ threads' = [threads EXCEPT
                     ![t] = [pc |-> "store", self |-> threads[t].self,
                             local_py_type_id |-> threads[t].local_py_type_id,
                             read |-> global_py_type_id]]
    /\ op' = Call("load", t)
    /\ UNCHANGED <<l, r, res, bufs, cols, pyvalue, global_py_type_id,
                   structs>>

(* "+= 1", second half: the store; __post_init__ returns and the instance  *)
(* exists                                                                  *)
PostInitStore ==
  \E t \in Threads :
    /\ threads[t].pc = "store"
    /\ global_py_type_id' = global_py_type_id_plus_1(threads[t].read)
    /\ structs' = Append(structs,
                         Instance(threads[t].self,
                                  threads[t].local_py_type_id))
    /\ threads' = [threads EXCEPT ![t] = Idle]
    /\ res' = Value(threads[t].self)
    /\ op' = Call("store", t)
    /\ UNCHANGED <<l, r, bufs, cols, pyvalue>>

IdNext ==
  \/ StructNew
  \/ StructWithNull
  \/ StructSetState
  \/ PostInitSetId
  \/ PostInitLoad
  \/ PostInitStore

(* a single-threaded run *)
SeqInit ==
  /\ l = Void(TRUE)
  /\ r = Void(TRUE)
  /\ res = NoCall
  /\ op = Call("init", <<>>)
  /\ bufs = <<>>
  /\ cols = <<>>
  /\ pyvalue = <<>>
  /\ global_py_type_id = 0
  /\ structs = <<>>
  /\ threads = [t \in 1..1 |-> Idle]

SeqSpec == SeqInit /\ [][IdNext]_vars

(* threads constructing Structs concurrently *)
ThreadInit ==
  /\ l = Void(TRUE)
  /\ r = Void(TRUE)
  /\ res = NoCall
  /\ op = Call("init", <<>>)
  /\ bufs = <<>>
  /\ cols = <<>>
  /\ pyvalue = <<>>
  /\ global_py_type_id = 0
  /\ structs = <<>>
  /\ threads = [t \in 1..MaxThreads |-> Idle]

ThreadSpec == ThreadInit /\ [][IdNext]_vars

-----------------------------------------------------------------------------
(* Tensors: the backing buffers of a column                                *)
(*                                                                         *)
(* bufs is the storage: bufs[b] is the data of storage b.  A tensor is a   *)
(* view of a storage: a slice of a tensor shares its storage, clone() and  *)
(* arithmetic allocate a new one.                                          *)

NoneTensor == [dt |-> "None"]

IsNone(t) == t.dt = "None"

Tensor(buf, off, len, dt) == [buf |-> buf, off |-> off, len |-> len, dt |-> dt]

(* the elements the view t shows *)
Data(heap, t) == [i \in 1..t.len |-> heap[t.buf][t.off + i]]

(* torch.tensor(data): a tensor on a storage of its own *)
Alloc(heap, data, dt) ==
  [bufs |-> Append(heap, data),
   tensor |-> Tensor(Len(heap) + 1, 0, Len(data), dt)]

(* Elements: a finite number, or one of the IEEE specials of a float      *)
(* tensor.  "other" stands for a number outside the numbers modelled.      *)
Num(v) == [k |-> "num", v |-> v]

NaN == [k |-> "nan", v |-> 0]

PosInf == [k |-> "inf", v |-> 0]

NegInf == [k |-> "-inf", v |-> 0]

Other == [k |-> "other", v |-> 0]

Representable(e) == e.k # "other" /\ (e.k = "num" => e.v \in 0..MaxVal)

elem_add(x, y) ==
  IF x.k = "nan" \/ y.k = "nan" THEN NaN
  ELSE IF x.k = "inf" THEN (IF y.k = "-inf" THEN NaN ELSE PosInf)
  ELSE IF x.k = "-inf" THEN (IF y.k = "inf" THEN NaN ELSE NegInf)
  ELSE IF y.k \in {"inf", "-inf"} THEN y
  ELSE Num(x.v + y.v)

(* true division of elements that are never negative numbers *)
elem_div(x, y) ==
  IF x.k = "nan" \/ y.k = "nan" THEN NaN
  ELSE IF x.k \in {"inf", "-inf"}
       THEN (IF y.k \in {"inf", "-inf"} THEN NaN ELSE x)
  ELSE IF y.k \in {"inf", "-inf"} THEN Num(0)
  ELSE IF y.v = 0 THEN (IF x.v = 0 THEN NaN ELSE PosInf)
  ELSE IF x.v % y.v = 0 THEN Num(x.v \div y.v)
  ELSE Other

elem_log(x) ==
  CASE x.k = "nan" -> NaN
    [] x.k = "inf" -> PosInf
    [] x.k = "-inf" -> NaN
    [] x.k = "num" /\ x.v = 0 -> NegInf
    [] x.k = "num" /\ x.v = 1 -> Num(0)
    [] OTHER -> Other

(* logit(x) = log(x / (1 - x)) *)
elem_logit(x) ==
  CASE x.k = "num" /\ x.v = 0 -> NegInf
    [] x.k = "num" /\ x.v = 1 -> PosInf
    [] OTHER -> NaN

(* broadcasting of two 1-D shapes *)
CanBroadcast(m, n) == m = n \/ m = 1 \/ n = 1

BroadcastLen(m, n) == IF m = 1 THEN n ELSE m

At(x, i) == IF Len(x) = 1 THEN x[1] ELSE x[i]

add_data(x, y) ==
  [i \in 1..BroadcastLen(Len(x), Len(y)) |-> elem_add(At(x, i), At(y, i))]

div_data(x, y) ==
  [i \in 1..BroadcastLen(Len(x), Len(y)) |-> elem_div(At(x, i), At(y, i))]

and_data(x, y) ==
  [i \in 1..BroadcastLen(Len(x), Len(y)) |-> At(x, i) /\ At(y, i)]

(* the dtype of the sum of two tensors *)
add_dtype(a, b) == IF "float32" \in {a, b} THEN "float32" ELSE "int64"

-----------------------------------------------------------------------------
(* NumericColumn *)

(* dtypes._dtype_from_pytorch_dtype: the DType of the buffer's element    *)
(* type, nullable iff the column has a mask                                *)
dtype_from_pytorch_dtype(dt, nullable) ==
  CASE dt = "int64" -> Int64(nullable)
    [] dt = "float32" -> Float32(nullable)
    [] dt = "bool" -> Boolean(nullable)

(* NumericColumn.__init__ on 1-D values *)
NumericColumn(values, presence) ==
  IF ~IsNone(presence) /\ values.len # presence.len
  THEN Raise("ValueError")
  ELSE Value([values |-> values, presence |-> presence,
              dtype |-> dtype_from_pytorch_dtype(values.dt,
                                                 ~IsNone(presence))])

(* what a call returns: the receiver itself, or a new column *)
Self(i) == [is |-> "self", col |-> i]

New(c) == [is |-> "new", column |-> c]

(* tensor[key].item(): a scalar *)
Item(e) == [is |-> "item", item |-> e]

(* the state after a call that made the column o.val, or raised *)
Made(heap0, heap, cs, o) ==
  IF o.kind = "value"
  THEN [bufs |-> heap, cols |-> cs, res |-> Value(New(o.val))]
  ELSE [bufs |-> heap0, cols |-> cs, res |-> o]

(* the storages the columns cs refer to *)
Refs(cs) ==
  UNION {{cs[i].values.buf} \cup
           (IF IsNone(cs[i].presence) THEN {} ELSE {cs[i].presence.buf}) :
         i \in 1..Len(cs)}

(* the heap once a column that was returned and not kept is freed: its    *)
(* storages are the last ones allocated                                    *)
Kept(heap, cs) ==
  SubSeq(heap, 1,
         CHOOSE m \in Refs(cs) \cup {0} : \A b \in Refs(cs) : b <= m)

clone(heap, cs, i) ==
  LET c == cs[i]
      v == Alloc(heap, Data(heap, c.values), c.values.dt)
      p == IF IsNone(c.presence)
           THEN [bufs |-> v.bufs, tensor |-> NoneTensor]
           ELSE Alloc(v.bufs, Data(heap, c.presence), "bool")
  IN  Made(heap, p.bufs, cs, NumericColumn(v.tensor, p.tensor))

(* __getitem__ with an int key *)
getitem_int(heap, cs, i, key) ==
  LET c == cs[i]
  IN  IF IsNone(c.presence) \/ Data(heap, c.presence)[key + 1]
      THEN Value(Item(Data(heap, c.values)[key + 1]))
      ELSE ReturnNone

(* self.values[start:stop]: a view of the same storage *)
slice_tensor(t, start, stop) ==
  Tensor(t.buf, t.off + start, stop - start, t.dt)

(* __getitem__ with a slice key *)
getitem_slice(heap, cs, i, start, stop) ==
  LET c == cs[i]
      values == slice_tensor(c.values, start, stop)
      presence == IF IsNone(c.presence) THEN NoneTensor
                  ELSE slice_tensor(c.presence, start, stop)
  IN  Made(heap, heap, cs, NumericColumn(values, presence))

(* self.values[~self.presence] = val: a write through the view *)
masked_store(heap, values, presence, val) ==
  [heap EXCEPT ![values.buf] =
     [j \in 1..Len(@) |->
        IF /\ j - values.off \in 1..values.len
           /\ ~Data(heap, presence)[j - values.off]
        THEN Num(val) ELSE @[j]]]

(* data with val at the positions the mask marks invalid *)
filled(values, presence, val) ==
  [j \in 1..Len(values) |-> IF presence[j] THEN values[j] ELSE Num(val)]

(* fill_null writing through self.values instead of a clone of it *)
fill_null_no_clone(heap, cs, i, val) ==
  LET c == cs[i]
  IN  IF IsNone(c.presence)
      THEN [bufs |-> heap, cols |-> cs, res |-> Value(Self(i))]
      ELSE Made(heap, masked_store(heap, c.values, c.presence, val), cs,
                NumericColumn(c.values, NoneTensor))

fill_null(heap, cs, i, val) ==
  LET c == cs[i]
  IN  IF IsNone(c.presence)
      THEN [bufs |-> heap, cols |-> cs, res |-> Value(Self(i))]
      ELSE LET v == Alloc(heap,
                          filled(Data(heap, c.values),
                                 Data(heap, c.presence), val),
                          c.values.dt)
           IN  Made(heap, v.bufs, cs, NumericColumn(v.tensor, NoneTensor))

(* fill_null_ that drops the mask and leaves the dtype as it was *)
fill_null_stale_dtype(heap, cs, i, val) ==
  LET c == cs[i]
  IN  IF IsNone(c.presence)
      THEN [bufs |-> heap, cols |-> cs, res |-> Value(Self(i))]
      ELSE [bufs |-> masked_store(heap, c.values, c.presence, val),
            cols |-> [cs EXCEPT ![i] =
                        [values |-> c.values, presence |-> NoneTensor,
                         dtype |-> c.dtype]],
            res |-> Value(Self(i))]

(* fill_null_ that drops the mask without storing val *)
fill_null_no_store(heap, cs, i, val) ==
  LET c == cs[i]
  IN  IF IsNone(c.presence)
      THEN [bufs |-> heap, cols |-> cs, res |-> Value(Self(i))]
      ELSE [bufs |-> heap,
            cols |-> [cs EXCEPT ![i] =
                        [values |-> c.values, presence |-> NoneTensor,
                         dtype |-> with_null(c.dtype, FALSE).val]],
            res |-> Value(Self(i))]

fill_null_(heap, cs, i, val) ==
  LET c == cs[i]
  IN  IF IsNone(c.presence)
      THEN [bufs |-> heap, cols |-> cs, res |-> Value(Self(i))]
      ELSE [bufs |-> masked_store(heap, c.values, c.presence, val),
            cols |-> [cs EXCEPT ![i] =
                        [values |-> c.values, presence |-> NoneTensor,
                         dtype |-> with_null(c.dtype, FALSE).val]],
            res |-> Value(Self(i))]

(* bool(t) of a tensor: defined for one element only *)
tensor_bool(heap, t) ==
  IF t.len = 1 THEN Value(Data(heap, t)[1]) ELSE Raise("RuntimeError")

(* presence1 & presence2, or "presence1 or presence2" when one is None *)
presence_for_binary_op(heap, presence1, presence2) ==
  IF ~IsNone(presence1) /\ ~IsNone(presence2)
  THEN IF CanBroadcast(presence1.len, presence2.len)
       THEN LET a == Alloc(heap,
                           and_data(Data(heap, presence1),
                                    Data(heap, presence2)), "bool")
            IN  [bufs |-> a.bufs, res |-> Value(a.tensor)]
       ELSE [bufs |-> heap, res |-> Raise("RuntimeError")]
  ELSE IF IsNone(presence1)
       THEN [bufs |-> heap, res |-> Value(presence2)]
       ELSE LET b == tensor_bool(heap, presence1)
            IN  IF b.kind = "raise" THEN [bufs |-> heap, res |-> b]
                ELSE [bufs |-> heap,
                      res |-> Value(IF b.val THEN presence1 ELSE presence2)]

(* NumericColumn(data, presence=_presence_for_binary_op(...)) for the     *)
(* data of self.values <op> other.values with dtype dt                     *)
binary_op(heap, cs, i, j, data, dt) ==
  IF ~CanBroadcast(cs[i].values.len, cs[j].values.len)
  THEN [bufs |-> heap, cols |-> cs, res |-> Raise("RuntimeError")]
  ELSE LET v == Alloc(heap, data, dt)
           p == presence_for_binary_op(v.bufs, cs[i].presence,
                                       cs[j].presence)
       IN  IF p.res.kind = "raise"
           THEN [bufs |-> heap, cols |-> cs, res |-> p.res]
           ELSE Made(heap, p.bufs, cs, NumericColumn(v.tensor, p.res.val))

(* __add__ with a NumericColumn *)
add(heap, cs, i, j) ==
  binary_op(heap, cs, i, j,
            add_data(Data(heap, cs[i].values), Data(heap, cs[j].values)),
            add_dtype(cs[i].values.dt, cs[j].values.dt))

(* __truediv__ with a NumericColumn *)
truediv(heap, cs, i, j) ==
  binary_op(heap, cs, i, j,
            div_data(Data(heap, cs[i].values), Data(heap, cs[j].values)),
            "float32")

(* NumericColumn(data, presence=self.presence) *)
unary_op(heap, cs, i, data, dt) ==
  LET v == Alloc(heap, data, dt)
  IN  Made(heap, v.bufs, cs, NumericColumn(v.tensor, cs[i].presence))

(* __add__ and __radd__ with an int *)
add_scalar(heap, cs, i, other) ==
  unary_op(heap, cs, i, add_data(Data(heap, cs[i].values), <<Num(other)>>),
           cs[i].values.dt)

(* __truediv__ (values / other) and __rtruediv__ (other / values) *)
truediv_scalar(heap, cs, i, other, reflected) ==
  unary_op(heap, cs, i,
           IF reflected
           THEN div_data(<<Num(other)>>, Data(heap, cs[i].values))
           ELSE div_data(Data(heap, cs[i].values), <<Num(other)>>),
           "float32")

log(heap, cs, i) ==
  unary_op(heap, cs, i,
           [k \in 1..cs[i].values.len |-> elem_log(Data(heap, cs[i].values)[k])],
           "float32")

(* logit(eps=None) *)
logit(heap, cs, i) ==
  unary_op(heap, cs, i,
           [k \in 1..cs[i].values.len |->
              elem_logit(Data(heap, cs[i].values)[k])],
           "float32")

-----------------------------------------------------------------------------
(* The column operations *)

Elems == {Num(v) : v \in 0..MaxVal}

(* the values of a new column: 0, 1, ..., MaxVal, 0, ... *)
ValueData ==
  {[i \in 1..n |-> Num((i - 1) % (MaxVal + 1))] : n \in 0..MaxLen}

MaskData == UNION {[1..n -> BOOLEAN] : n \in 0..MaxLen}

Scalars == 0..MaxVal

DataOK(data) == \A k \in 1..Len(data) : Representable(data[k])

Columns == 1..Len(cols)

Heap == Kept(bufs, cols)

(* the step of a call whose outcome is out *)
Apply(out, call) ==
  /\ bufs' = out.bufs
  /\ cols' = out.cols
  /\ res' = out.res
  /\ op' = call
  /\ UNCHANGED <<l, r, pyvalue, ids>>

(* NumericColumn(torch.tensor(values)) and                                 *)
(* NumericColumn(torch.tensor(values), torch.tensor(presence))             *)
NewColumn ==
  \E vd \in ValueData, masked \in BOOLEAN, pd \in MaskData :
    /\ Len(cols) < MaxCols
    /\ ~masked => pd = <<>>
    /\ LET v == Alloc(Heap, vd, "int64")
           p == IF masked THEN Alloc(v.bufs, pd, "bool")
                ELSE [bufs |-> v.bufs, tensor |-> NoneTensor]
       IN  Apply(Made(Heap, p.bufs, cols, NumericColumn(v.tensor, p.tensor)),
                 Call("NumericColumn", [masked |-> masked]))

Clone ==
  \E i \in Columns :
    Apply(clone(Heap, cols, i), Call("clone", [self |-> i]))

GetItemInt ==
  \E i \in Columns :
    \E key \in 0..(cols[i].values.len - 1) :
      /\ res' = getitem_int(Heap, cols, i, key)
      /\ op' = Call("getitem_int", [self |-> i, key |-> key])
      /\ bufs' = Heap
      /\ UNCHANGED <<l, r, cols, pyvalue, ids>>

GetItemSlice ==
  \E i \in Columns :
    \E start \in 0..cols[i].values.len :
      \E stop \in start..cols[i].values.len :
        Apply(getitem_slice(Heap, cols, i, start, stop),
              Call("getitem_slice",
                   [self |-> i, start |-> start, stop |-> stop]))

FillNull ==
  \E i \in Columns, val \in Scalars :
    Apply(fill_null(Heap, cols, i, val),
          Call("fill_null", [self |-> i, val |-> val]))

FillNullInPlace ==
  \E i \in Columns, val \in Scalars :
    Apply(fill_null_(Heap, cols, i, val),
          Call("fill_null_",
               [self |-> i, val |-> val,
                masked |-> ~IsNone(cols[i].presence)]))

Add ==
  \E i \in Columns, j \in Columns :
    /\ CanBroadcast(cols[i].values.len, cols[j].values.len) =>
         DataOK(add_data(Data(Heap, cols[i].values),
                         Data(Heap, cols[j].values)))
    /\ Apply(add(Heap, cols, i, j), Call("add", [self |-> i, other |-> j]))

TrueDiv ==
  \E i \in Columns, j \in Columns :
    /\ CanBroadcast(cols[i].values.len, cols[j].values.len) =>
         DataOK(div_data(Data(Heap, cols[i].values),
                         Data(Heap, cols[j].values)))
    /\ Apply(truediv(Heap, cols, i, j),
             Call("truediv", [self |-> i, other |-> j]))

AddScalar ==
  \E i \in Columns, other \in Scalars :
    /\ DataOK(add_data(Data(Heap, cols[i].values), <<Num(other)>>))
    /\ Apply(add_scalar(Heap, cols, i, other),
             Call("add_scalar", [self |-> i, other |-> other]))

TrueDivScalar ==
  \E i \in Columns, other \in Scalars, reflected \in BOOLEAN :
    LET out == truediv_scalar(Heap, cols, i, other, reflected)
    IN  /\ DataOK(out.bufs[Len(out.bufs)])
        /\ Apply(out, Call("truediv_scalar",
                           [self |-> i, other |-> other,
                            reflected |-> reflected]))

Log ==
  \E i \in Columns :
    LET out == log(Heap, cols, i)
    IN  /\ DataOK(out.bufs[Len(out.bufs)])
        /\ Apply(out, Call("log", [self |-> i]))

Logit ==
  \E i \in Columns :
    Apply(logit(Heap, cols, i), Call("logit", [self |-> i]))

(* b = <the column the last call returned> *)
Keep ==
  /\ res.kind = "value"
  /\ res.val.is = "new"
  /\ Len(cols) < MaxCols
  /\ cols' = Append(cols, res.val.column)
  /\ res' = NoCall
  /\ op' = Call("keep", <<>>)
  /\ UNCHANGED <<l, r, bufs, pyvalue, ids>>

ColumnInit ==
  /\ l = Void(TRUE)
  /\ r = Void(TRUE)
  /\ res = NoCall
  /\ op = Call("init", <<>>)
  /\ bufs = <<>>
  /\ cols = <<>>
  /\ pyvalue = <<>>
  /\ global_py_type_id = 0
  /\ structs = <<>>
  /\ threads = <<>>

ColumnNext ==
  \/ NewColumn
  \/ Clone
  \/ GetItemInt
  \/ GetItemSlice
  \/ FillNull
  \/ FillNullInPlace
  \/ Add
  \/ TrueDiv
  \/ AddScalar
  \/ TrueDivScalar
  \/ Log
  \/ Logit
  \/ Keep

ColumnSpec == ColumnInit /\ [][ColumnNext]_vars

-----------------------------------------------------------------------------
(* Properties of the join *)

(* C1: common_dtype is commutative: common_dtype(l, r) and                 *)
(* common_dtype(r, l) both fail (None or an exception) or return equal     *)
(* DTypes.                                                                 *)
C1_Commutative ==
  op.fn = "common_dtype" =>
    LET rev == common_dtype(r, l)
    IN  IF res.kind = "value"
        THEN rev.kind = "value" /\ dtype_eq(res.val, rev.val)
        ELSE rev.kind # "value"

(* C2: joining Void with x, on either side, succeeds and returns           *)
(* x.with_null(True).                                                      *)
C2_VoidJoin ==
  (op.fn = "common_dtype" /\ (is_void(l) \/ is_void(r))) =>
    LET x == IF is_void(l) THEN r ELSE l
        xn == with_null(x, TRUE)
    IN  /\ res.kind = "value"
        /\ xn.kind = "value"
        /\ dtype_eq(res.val, xn.val)

PromotionOrder == <<"b", "c", "s", "i", "l", "f", "g">>

Rank(tc) == CHOOSE i \in 1..Len(PromotionOrder) : PromotionOrder[i] = tc

(* C3: the join of two boolean-or-numeric DTypes never fails and is the    *)
(* higher of the two in boolean < int8 < int16 < int32 < int64 < float32   *)
(* < float64, nullable iff either operand is; int8 with int32 is int32,    *)
(* int64 with float32 is float32, boolean with boolean is boolean.         *)
C3_NumericJoin ==
  /\ (op.fn = "common_dtype" /\ is_boolean_or_numerical(l)
        /\ is_boolean_or_numerical(r)) =>
       res = Value(Prim(IF Rank(l.tc) >= Rank(r.tc) THEN l.tc ELSE r.tc,
                        l.nullable \/ r.nullable))
  /\ (op.fn = "common_dtype" /\ l = int8 /\ r = int32) => res = Value(int32)
  /\ (op.fn = "common_dtype" /\ l = int64 /\ r = float32) =>
       res = Value(float32)
  /\ (op.fn = "common_dtype" /\ l = boolean /\ r = boolean) =>
       res = Value(boolean)

C3_Witness ==
  /\ op.fn = "common_dtype"
  /\ l = Float32(FALSE)
  /\ r = Int64(TRUE)
  /\ res = Value(Float32(TRUE))

-----------------------------------------------------------------------------
(* Properties of the algebra *)

NamedPrimitive(t) ==
  t.tc \in {"n", "b", "c", "s", "i", "l", "f", "g", "u"}

(* C4: for every primitive t, t.with_null(True).with_null(False) == t,     *)
(* and t.with_null(True) != t when t is not nullable.                      *)
C4_RoundTrip ==
  (op.fn = "with_null" /\ NamedPrimitive(l)) =>
    /\ op.arg = <<TRUE, FALSE>> => res = Value(l)
    /\ (op.arg = <<TRUE>> /\ ~l.nullable) =>
         (res.kind = "value" /\ ~dtype_eq(res.val, l))

(* C4 as amended: for every primitive t, t.with_null(True).with_null(False) *)
(* is the non-nullable DType of t's class, which is t exactly when t is    *)
(* not nullable; and t.with_null(True) != t when t is not nullable.        *)
C4_RoundTripAmended ==
  (op.fn = "with_null" /\ NamedPrimitive(l)) =>
    /\ op.arg = <<TRUE, FALSE>> =>
         /\ res = Value(Prim(l.tc, FALSE))
         /\ dtype_eq(res.val, l) <=> ~l.nullable
    /\ (op.arg = <<TRUE>> /\ ~l.nullable) =>
         (res.kind = "value" /\ ~dtype_eq(res.val, l))

C4_Witness ==
  /\ op.fn = "with_null"
  /\ op.arg = <<TRUE, FALSE>>
  /\ l = Void(TRUE)
  /\ res = Value(Void(FALSE))

RECURSIVE StructsValid(_)
(* every struct in t, t included, has only nullable fields if nullable *)
StructsValid(t) ==
  CASE is_struct(t) ->
         /\ t.nullable => \A i \in 1..Len(t.fields) : t.fields[i].dtype.nullable
         /\ \A i \in 1..Len(t.fields) : StructsValid(t.fields[i].dtype)
    [] is_tuple(t) -> \A i \in 1..Len(t.fields) : StructsValid(t.fields[i])
    [] is_list(t) -> StructsValid(t.item_dtype)
    [] is_map(t) -> StructsValid(t.key_dtype) /\ StructsValid(t.item_dtype)
    [] OTHER -> TRUE

(* C5: every Struct that exists, as an operand or in the value a call      *)
(* returned, has only nullable fields if it is nullable; building a        *)
(* nullable Struct raises exactly when one of its fields is not nullable,  *)
(* and then no Struct is returned.                                         *)
C5_StructNullability ==
  /\ StructsValid(l)
  /\ StructsValid(r)
  /\ res.kind = "value" => StructsValid(res.val)
  /\ op.fn = "Struct" =>
       LET k == op.arg[1]
           n == op.arg[2]
           bad == n /\ \E i \in 1..k : ~Operands(k)[i].nullable
       IN  /\ res.kind = "raise" <=> bad
           /\ res.kind = "value" <=> ~bad
           /\ res.kind = "value" =>
                (is_struct(res.val) /\ res.val.nullable = n
                   /\ Len(res.val.fields) = k)

C5_Witness ==
  /\ op.fn = "Struct"
  /\ res.kind = "value"
  /\ res.val.nullable
  /\ Len(res.val.fields) = MaxArity

(* C6: for every DType t other than Any, t.with_null(flag) returns a value *)
(* whose nullable is flag and whose other fields are those of t.           *)
C6_WithNullFrame ==
  (op.fn = "with_null" /\ Len(op.arg) = 1 /\ ~is_any(l)) =>
    (res.kind = "value" /\ res.val = [l EXCEPT !.nullable = op.arg[1]])

-----------------------------------------------------------------------------
(* Properties of the column *)

Masked(c) == ~IsNone(c.presence)

(* C7: the sum or quotient of two columns of equal length succeeds; its    *)
(* mask is the elementwise AND of the two masks if both have one, the one  *)
(* mask if exactly one of the operands (left or right) has one, and none   *)
(* if neither has; with a scalar operand the mask is the column's own.     *)
C7_ResultMask ==
  /\ (/\ op.fn \in {"add", "truediv"}
      /\ cols[op.arg.self].values.len = cols[op.arg.other].values.len) =>
       LET a == cols[op.arg.self]
           b == cols[op.arg.other]
       IN  /\ res.kind = "value"
           /\ LET c == res.val.column
              IN  IF Masked(a) /\ Masked(b)
                  THEN /\ Masked(c)
                       /\ Data(bufs, c.presence) =
                            [k \in 1..a.presence.len |->
                               Data(bufs, a.presence)[k]
                                 /\ Data(bufs, b.presence)[k]]
                  ELSE IF Masked(a)
                       THEN /\ Masked(c)
                            /\ Data(bufs, c.presence) = Data(bufs, a.presence)
                  ELSE IF Masked(b)
                       THEN /\ Masked(c)
                            /\ Data(bufs, c.presence) = Data(bufs, b.presence)
                  ELSE ~Masked(c)
  /\ op.fn \in {"add_scalar", "truediv_scalar"} =>
       LET a == cols[op.arg.self]
       IN  /\ res.kind = "value"
           /\ LET c == res.val.column
              IN  /\ Masked(c) <=> Masked(a)
                  /\ Masked(a) =>
                       Data(bufs, c.presence) = Data(bufs, a.presence)

ColumnValid(c) ==
  /\ c.dtype.nullable <=> Masked(c)
  /\ Masked(c) => c.presence.len = c.values.len
  /\ Masked(c) => Len(Data(bufs, c.presence)) = Len(Data(bufs, c.values))

(* C8: every column, kept or just returned, has a nullable dtype iff it    *)
(* has a mask, and a mask as long as its values.                           *)
C8_ColumnInvariant ==
  /\ \A i \in Columns : ColumnValid(cols[i])
  /\ (res.kind = "value" /\ res.val.is = "new") => ColumnValid(res.val.column)

C8_Witness ==
  /\ op.fn = "fill_null_"
  /\ op.arg.masked
  /\ Len(cols) = MaxCols
  /\ \E j \in Columns : Masked(cols[j]) /\ cols[j].values.len = MaxLen

(* C9: fill_null(v) leaves the receiver's values, mask and dtype as they   *)
(* were; on a masked column it returns a new column with no mask, the      *)
(* non-nullable dtype, v where the mask marks invalid and the receiver's   *)
(* value elsewhere; on an unmasked column it returns the receiver.         *)
C9_FillNullPure ==
  [][op'.fn = "fill_null" =>
       LET i == op'.arg.self
           v == op'.arg.val
           c == cols[i]
       IN  /\ cols' = cols
           /\ Data(bufs', c.values) = Data(bufs, c.values)
           /\ ~Masked(c) => res' = Value(Self(i))
           /\ Masked(c) =>
                /\ Data(bufs', c.presence) = Data(bufs, c.presence)
                /\ res'.kind = "value"
                /\ res'.val.is = "new"
                /\ LET n == res'.val.column
                   IN  /\ ~Masked(n)
                       /\ n.dtype = [c.dtype EXCEPT !.nullable = FALSE]
                       /\ n.values.len = c.values.len
                       /\ \A j \in 1..c.values.len :
                            Data(bufs', n.values)[j] =
                              IF Data(bufs, c.presence)[j]
                              THEN Data(bufs, c.values)[j]
                              ELSE Num(v)]_vars

C9_Witness ==
  /\ op.fn = "fill_null"
  /\ res.kind = "value"
  /\ res.val.is = "new"
  /\ Masked(cols[op.arg.self])
  /\ \E j \in 1..cols[op.arg.self].values.len :
       /\ ~Data(bufs, cols[op.arg.self].presence)[j]
       /\ Data(bufs, cols[op.arg.self].values)[j] # Num(op.arg.val)

(* C10: after c.fill_null_(v) the call has returned c itself, c has no     *)
(* mask and a non-nullable dtype, and c[key] is, at every key, the element *)
(* of the column c.fill_null(v) returns from the state before the call.    *)
C10_InPlaceEquivalent ==
  [][op'.fn = "fill_null_" =>
       LET i == op'.arg.self
           pure == fill_null(bufs, cols, i, op'.arg.val)
           expect == IF pure.res.val.is = "self" THEN cols[i]
                     ELSE pure.res.val.column
           c == cols'[i]
       IN  /\ res' = Value(Self(i))
           /\ Len(cols') = Len(cols)
           /\ ~Masked(c)
           /\ ~c.dtype.nullable
           /\ c.dtype = expect.dtype
           /\ c.values.len = expect.values.len
           /\ \A key \in 0..(c.values.len - 1) :
                getitem_int(bufs', cols', i, key) =
                  Value(Item(Data(pure.bufs, expect.values)[key + 1]))]_vars

C10_Witness ==
  /\ op.fn = "fill_null_"
  /\ op.arg.masked
  /\ res = Value(Self(op.arg.self))
  /\ ~Masked(cols[op.arg.self])
  /\ \E key \in 0..(cols[op.arg.self].values.len - 1) :
       getitem_int(bufs, cols, op.arg.self, key) = Value(Item(Num(op.arg.val)))

(* the calls that return a column computed from their operands *)
Derivations ==
  {"clone", "add", "truediv", "add_scalar", "truediv_scalar", "log", "logit"}

(* C11: the column that clone, add, divide (by a column or a scalar), log  *)
(* or logit returns shares neither the storage of its values nor that of   *)
(* its mask with an operand, and the call leaves the operands' values,     *)
(* mask and dtype as they were.                                            *)
C11_NoAliasing ==
  [][(op'.fn \in Derivations /\ res'.kind = "value") =>
       LET n == res'.val.column
           operands == {op'.arg.self} \cup
                         (IF op'.fn \in {"add", "truediv"}
                          THEN {op'.arg.other} ELSE {})
       IN  \A i \in operands :
             /\ cols'[i] = cols[i]
             /\ Data(bufs', cols[i].values) = Data(bufs, cols[i].values)
             /\ Masked(cols[i]) =>
                  Data(bufs', cols[i].presence) = Data(bufs, cols[i].presence)
             /\ n.values.buf # cols[i].values.buf
             /\ (Masked(n) /\ Masked(cols[i])) =>
                  n.presence.buf # cols[i].presence.buf]_vars

(* C18: c.fill_null_(v) leaves every column other than c as it was: its    *)
(* length, mask and dtype, and the element or None it shows at every key.  *)
C18_OtherColumnsKept ==
  [][op'.fn = "fill_null_" =>
       \A j \in Columns \ {op'.arg.self} :
         /\ cols'[j] = cols[j]
         /\ \A key \in 0..(cols[j].values.len - 1) :
              getitem_int(bufs', cols', j, key) =
                getitem_int(bufs, cols, j, key)]_vars

-----------------------------------------------------------------------------
(* Properties of the join of composites *)

RECURSIVE HasStruct(_)
HasStruct(t) ==
  CASE is_struct(t) -> TRUE
    [] is_tuple(t) -> \E i \in 1..Len(t.fields) : HasStruct(t.fields[i])
    [] is_list(t) -> HasStruct(t.item_dtype)
    [] is_map(t) -> HasStruct(t.key_dtype) \/ HasStruct(t.item_dtype)
    [] OTHER -> FALSE

(* the kind of a type that is neither Void nor Any *)
KindOf(t) ==
  CASE is_string(t) -> "string"
    [] is_boolean_or_numerical(t) -> "numeric"
    [] OTHER -> t.tc

(* the call returned no DType: None, and nothing but None unless a Struct  *)
(* is among the operands                                                   *)
JoinFailed ==
  /\ res.kind # "value"
  /\ (~HasStruct(l) /\ ~HasStruct(r)) => res = ReturnNone

(* C15: two Tuples of unequal arity fail; two Tuples of equal arity join   *)
(* iff every position joins, to the Tuple of the positional joins; two     *)
(* Maps join iff keys and items join, to the Map of the two joins; two     *)
(* Lists join iff the items join, to the List of the join; the result is   *)
(* nullable iff an operand is; two types of different kinds, neither Void  *)
(* nor Any, fail.                                                          *)
C15_CompositeJoin ==
  (op.fn = "common_dtype" /\ ~is_void(l) /\ ~is_void(r)
     /\ ~is_any(l) /\ ~is_any(r)) =>
    /\ (is_tuple(l) /\ is_tuple(r) /\ Len(l.fields) # Len(r.fields)) =>
         JoinFailed
    /\ (is_tuple(l) /\ is_tuple(r) /\ Len(l.fields) = Len(r.fields)) =>
         LET m == [i \in 1..Len(l.fields) |->
                     common_dtype(l.fields[i], r.fields[i])]
         IN  IF \A i \in 1..Len(l.fields) : m[i].kind = "value"
             THEN /\ res.kind = "value"
                  /\ is_tuple(res.val)
                  /\ res.val.fields = [i \in 1..Len(l.fields) |-> m[i].val]
                  /\ res.val.nullable = (l.nullable \/ r.nullable)
             ELSE JoinFailed
    /\ (is_map(l) /\ is_map(r)) =>
         LET k == common_dtype(l.key_dtype, r.key_dtype)
             i == common_dtype(l.item_dtype, r.item_dtype)
         IN  IF k.kind = "value" /\ i.kind = "value"
             THEN /\ res.kind = "value"
                  /\ is_map(res.val)
                  /\ res.val.key_dtype = k.val
                  /\ res.val.item_dtype = i.val
                  /\ res.val.nullable = (l.nullable \/ r.nullable)
             ELSE JoinFailed
    /\ (is_list(l) /\ is_list(r)) =>
         LET k == common_dtype(l.item_dtype, r.item_dtype)
         IN  IF k.kind = "value"
             THEN /\ res.kind = "value"
                  /\ is_list(res.val)
                  /\ res.val.item_dtype = k.val
                  /\ res.val.nullable = (l.nullable \/ r.nullable)
             ELSE JoinFailed
    /\ KindOf(l) # KindOf(r) => JoinFailed

C15_Witness ==
  /\ op.fn = "common_dtype"
  /\ is_tuple(l)
  /\ is_tuple(r)
  /\ Len(l.fields) = MaxArity
  /\ Len(r.fields) = MaxArity
  /\ common_dtype(l.fields[1], r.fields[1]).kind = "value"
  /\ common_dtype(l.fields[MaxArity], r.fields[MaxArity]) = ReturnNone
  /\ res = ReturnNone

(* none of the Void, Any, string, numeric, tuple, map and list rules of    *)
(* common_dtype takes the pair                                             *)
FallbackPair(a, b) ==
  /\ ~is_void(a) /\ ~is_void(b) /\ ~is_any(a) /\ ~is_any(b)
  /\ ~(is_string(a) /\ is_string(b))
  /\ ~(is_boolean_or_numerical(a) /\ is_boolean_or_numerical(b))
  /\ ~(is_tuple(a) /\ is_tuple(b) /\ Len(a.fields) = Len(b.fields))
  /\ ~(is_map(a) /\ is_map(b))
  /\ ~(is_list(a) /\ is_list(b))

(* C16: for a pair under none of the other rules, the join is the nullable *)
(* variant of the type if the two are equal but for nullable, and None     *)
(* otherwise; it never raises.                                             *)
C16_Fallback ==
  (op.fn = "common_dtype" /\ FallbackPair(l, r)) =>
    IF [l EXCEPT !.nullable = TRUE] = [r EXCEPT !.nullable = TRUE]
    THEN res = Value([l EXCEPT !.nullable = TRUE])
    ELSE res = ReturnNone

-----------------------------------------------------------------------------
(* Properties of inference *)

RECURSIVE FoldLeft(_, _)
(* common_dtype folded from the left over the first n of the dtypes ts,   *)
(* stopping with a ValueError at the first join that is None               *)
FoldLeft(ts, n) ==
  IF n = 1 THEN Value(ts[1])
  ELSE LET acc == FoldLeft(ts, n - 1)
       IN  IF acc.kind # "value" THEN acc
           ELSE LET m == common_dtype(acc.val, ts[n])
                IN  IF m = ReturnNone THEN ValueError(acc.val, ts[n]) ELSE m

(* C14: infer_dtype_from_prefix returns Any() for the empty prefix; for    *)
(* elements whose dtypes are inferred it returns the left fold of          *)
(* common_dtype over them, or raises at the first join without a result a  *)
(* ValueError holding the folded dtype and the next one, and returns       *)
(* nothing; infer_dtype_from_value(None) is Void().                        *)
C14_PrefixFold ==
  /\ op.fn = "infer_dtype_from_prefix" =>
       LET prefix == pyvalue
           ts == [i \in 1..Len(prefix) |-> infer_dtype_from_value(prefix[i])]
       IN  IF Len(prefix) = 0 THEN res = Value(Any(TRUE))
           ELSE IF \A i \in 1..Len(prefix) : ts[i].kind = "value"
                THEN res = FoldLeft([i \in 1..Len(prefix) |-> ts[i].val],
                                    Len(prefix))
                ELSE res.kind = "raise"
  /\ (op.fn = "infer_dtype_from_value" /\ pyvalue[op.arg] = PyNone) =>
       res = Value(Void(TRUE))

C14_Witness ==
  /\ op.fn = "infer_dtype_from_prefix"
  /\ Len(pyvalue) = MaxPrefix
  /\ pyvalue[1] = PyInt
  /\ pyvalue[2] = PyNone
  /\ res = ValueError(Int64(TRUE), string)

(* the rearrangements of the sequence s *)
Permutations(s) ==
  {[i \in 1..Len(s) |-> s[f[i]]] :
     f \in {g \in [1..Len(s) -> 1..Len(s)] :
              \A i, j \in 1..Len(s) : g[i] = g[j] => i = j}}

(* C17: common_dtype is associative where the joins are defined, and       *)
(* infer_dtype_from_prefix gives every rearrangement of a prefix the same  *)
(* dtype, or fails on all of them.                                         *)
C17_Associative ==
  op.fn = "infer_dtype_from_prefix" =>
    /\ \A q \in Permutations(pyvalue) :
         LET o == infer_dtype_from_prefix(q)
         IN  IF res.kind = "value"
             THEN o.kind = "value" /\ dtype_eq(o.val, res.val)
             ELSE o.kind # "value"
    /\ Len(pyvalue) = 3 =>
         LET a == infer_dtype_from_value(pyvalue[1])
             b == infer_dtype_from_value(pyvalue[2])
             c == infer_dtype_from_value(pyvalue[3])
         IN  (a.kind = "value" /\ b.kind = "value" /\ c.kind = "value") =>
               LET ab == common_dtype(a.val, b.val)
                   bc == common_dtype(b.val, c.val)
               IN  (ab.kind = "value" /\ bc.kind = "value") =>
                     LET x == common_dtype(ab.val, c.val)
                         y == common_dtype(a.val, bc.val)
                     IN  (x.kind = "value" /\ y.kind = "value") =>
                           dtype_eq(x.val, y.val)

-----------------------------------------------------------------------------
(* Properties of the Struct identifier *)

(* C12: in a single-threaded run every Struct made, by Struct(...), by     *)
(* with_null or by __setstate__, has an identifier greater than that of    *)
(* every Struct made before it, and below the counter; a construction that *)
(* raises takes none; and two Structs are equal iff their fields,          *)
(* nullable, is_dataframe and metadata are, whatever their identifiers.    *)
C12_IdMonotonic ==
  /\ \A i, j \in 1..Len(structs) :
       i < j => structs[i].local_py_type_id < structs[j].local_py_type_id
  /\ \A i \in 1..Len(structs) :
       structs[i].local_py_type_id < global_py_type_id
  /\ (\A t \in Threads : threads[t].pc = "idle") =>
       global_py_type_id = Len(structs)
  /\ \A i, j \in 1..Len(structs) :
       Struct_eq(structs[i], structs[j]) <=>
         /\ structs[i].dtype.fields = structs[j].dtype.fields
         /\ structs[i].dtype.nullable = structs[j].dtype.nullable
         /\ structs[i].dtype.is_dataframe = structs[j].dtype.is_dataframe
         /\ structs[i].dtype.metadata = structs[j].dtype.metadata

C12_Witness ==
  /\ Len(structs) = MaxStructs
  /\ op.fn = "store"
  /\ res.kind = "value"
  /\ \E i, j \in 1..Len(structs) :
       /\ i < j
       /\ Struct_eq(structs[i], structs[j])
       /\ structs[i].local_py_type_id # structs[j].local_py_type_id

(* C13: with threads constructing Structs concurrently, no two Structs     *)
(* have the same identifier, and once every construction has finished the  *)
(* counter is the number of Structs made.                                  *)
C13_AtomicCounter ==
  /\ \A i, j \in 1..Len(structs) :
       i # j => structs[i].local_py_type_id # structs[j].local_py_type_id
  /\ (\A t \in Threads : threads[t].pc = "idle") =>
       global_py_type_id = Len(structs)

====
